---- MODULE Spec2Model ----
(***************************************************************************)
(* Model of the aggregation endpoints of src/lib/main-reference.py:        *)
(* search_anime, get_episodes, get_stream_urls and get_seasons.  Each      *)
(* handler validates its input, launches one provider operation per        *)
(* applicable scraper, awaits asyncio.gather(..., return_exceptions=True)  *)
(* and then builds the unified response from the gathered results.         *)
(***************************************************************************)
EXTENDS Integers, Sequences, FiniteSets, TLC

(* ------------------------------ bounds ------------------------------- *)
\* longest sequence a provider returns
MaxLen == 2
\* largest episode number a provider reports
MaxEp == 2
\* longest search query, in characters
MaxQuery == 3

(* ------------------------- python value model ------------------------ *)
\* Python's None, as it appears in string-valued fields and parameters
None == "<None>"

\* a presence test that only looks for None ("x is not None")
TruthyNotNone(x) == x # None

\* bool(x) of an Optional[str]
Truthy(x) == x # None /\ x # ""

\* a or b
PyOr(a, b) == IF Truthy(a) THEN a ELSE b

\* d.get(k) of a dict d (a function over the keys it holds)
Get(d, k) == IF k \in DOMAIN d THEN d[k] ELSE None

\* whitespace characters of str.strip()
Whitespace == {" "}

RECURSIVE LStrip(_)
LStrip(s) ==
    IF s = <<>> THEN <<>>
    ELSE IF Head(s) \in Whitespace THEN LStrip(Tail(s)) ELSE s

RECURSIVE RStrip(_)
RStrip(s) ==
    IF s = <<>> THEN <<>>
    ELSE IF s[Len(s)] \in Whitespace THEN RStrip(SubSeq(s, 1, Len(s) - 1)) ELSE s

\* a strip that trims the left end only (str.lstrip())
StripLeftOnly(s) == LStrip(s)

\* str.strip(): a string is the sequence of its characters
Strip(s) == RStrip(LStrip(s))

\* all sequences over S of length at most n
SeqUpTo(S, n) == UNION {[1..k -> S] : k \in 0..n}

(* ----------------------------- sources ------------------------------- *)
AnimeWorld == "AnimeWorld"
AnimeSaturn == "AnimeSaturn"
\* the source list of the fill loop of get_episodes
Sources == <<AnimeWorld, AnimeSaturn>>
SourceSet == {Sources[i] : i \in 1..Len(Sources)}

(* --------------------------- request inputs -------------------------- *)
\* values of the optional AW / AS query parameters
AWParams == {None, "", "aw-anime"}
ASParams == {None, "", "as-anime"}

\* search queries: character sequences
QueryChars == {" ", "a"}
Queries == SeqUpTo(QueryChars, MaxQuery)

(* -------------------------- provider outputs ------------------------- *)
\* a provider operation that raised: gather returns the exception object
Failure == [kind |-> "exc"]
\* a provider operation that returned None
NoValue == [kind |-> "none"]
\* a provider operation still in flight
Pending == [kind |-> "pending"]

ListOf(s) == [kind |-> "list", val |-> s]

\* ids and urls each scraper hands out
ItemIds(src) == IF src = AnimeWorld THEN {"a1", "a2"} ELSE {"b1", "b2"}

\* well-typed episode items: the url is under "url" for the first id and
\* under "stream_url" for the second
EpisodeItem(src, n, i) ==
    IF i \in {"a1", "b1"}
    THEN [episode_number |-> n, id |-> i, url |-> "url-" \o i]
    ELSE [episode_number |-> n, id |-> i, url |-> None, stream_url |-> "stream-" \o i]

\* items a scraper may also produce: a null id, a missing id, a missing number
NullIdItem(src) == [episode_number |-> 1, id |-> None, url |-> ""]
NoIdItem(src) == [episode_number |-> 1, url |-> "url-x"]
NoNumberItem(src) == [id |-> CHOOSE i \in ItemIds(src) : TRUE, url |-> "url-x"]

WellTypedItems(src) == {EpisodeItem(src, n, i) : n \in 1..MaxEp, i \in ItemIds(src)}
OddItems(src) == {NullIdItem(src), NoIdItem(src), NoNumberItem(src)}

\* the lists a scraper returns: well-typed items, or an odd item alone or
\* after one well-typed item
EpisodeLists(src) ==
    SeqUpTo(WellTypedItems(src), MaxLen)
        \cup {Append(s, x) : s \in SeqUpTo(WellTypedItems(src), 1), x \in OddItems(src)}

\* outcomes of scraper.get_episodes(id)
EpisodeOutcomes(src) == {Failure, NoValue} \cup {ListOf(s) : s \in EpisodeLists(src)}

\* outcomes of scraper.get_stream_url(id): a raised exception, None, a url
\* string, or a descriptor dict with optional stream_url / embed / provider
StrOf(s) == [kind |-> "str", val |-> s]
DictOf(d) == [kind |-> "dict", val |-> d]
EmptyDict == [k \in {} |-> None]

StreamUrlOf(src) == IF src = AnimeWorld THEN "aw-stream" ELSE "as-stream"

StreamDicts(src) ==
    { EmptyDict,
      [stream_url |-> StreamUrlOf(src)],
      [stream_url |-> StreamUrlOf(src), embed |-> "<provider-embed>", provider |-> "p"],
      [embed |-> "<provider-embed>"],
      [provider |-> "p"],
      [stream_url |-> "", embed |-> ""] }

StreamOutcomes(src) ==
    {Failure, NoValue, StrOf(""), StrOf(StreamUrlOf(src))}
        \cup {DictOf(d) : d \in StreamDicts(src)}

\* outcomes of scraper.search(q): titles are character sequences
SearchTitles == { <<"N", "a">>, <<"n", "a", " ">>, <<"B">> }
SearchEntries(src) ==
    {[title |-> t, source |-> src, id |-> CHOOSE i \in ItemIds(src) : TRUE] : t \in SearchTitles}
SearchOutcomes(src) ==
    {Failure, NoValue} \cup {ListOf(s) : s \in SeqUpTo(SearchEntries(src), MaxLen)}

\* what a launched provider operation may produce
OutcomesOf(task) ==
    IF task.method = "get_episodes" THEN EpisodeOutcomes(task.provider)
    ELSE IF task.method = "get_stream_url" THEN StreamOutcomes(task.provider)
    ELSE SearchOutcomes(task.provider)

\* an exception test that never recognises the captured failure
IsExceptionNever(r) == FALSE

IsException(r) == r.kind = "exc"

(* ------------------------------- state ------------------------------- *)
VARIABLES
    pc,        \* "idle", "gather" (suspended in await asyncio.gather), "done"
               \* (the handler has returned or raised)
    op,        \* endpoint of the current request
    q,         \* search query
    AW,        \* AW query parameter
    AS,        \* AS query parameter
    tasks,     \* provider operations launched, in launch order
    outcome,   \* per launched operation: Pending or what it produced
    order,     \* indices of the operations in completion order
    results,   \* what asyncio.gather returned
    response,  \* the HTTP outcome of the request
    first      \* when the request is run a second time on the same provider
               \* outputs: the outputs and the outcome of its first run

vars == <<pc, op, q, AW, AS, tasks, outcome, order, results, response, first>>

NoResponse == [status |-> "none"]
NoRun == [ran |-> FALSE, outcome |-> <<>>, response |-> NoResponse]
\* raise HTTPException(status_code=..., detail=...)
HTTPException(code, detail) == [status |-> code, detail |-> detail]
\* a returned body
Ok(body) == [status |-> "200", body |-> body]

Task(provider, method, arg) == [provider |-> provider, method |-> method, arg |-> arg]

Init ==
    /\ pc = "idle"
    /\ op = "none"
    /\ q = <<>>
    /\ AW = None
    /\ AS = None
    /\ tasks = <<>>
    /\ outcome = <<>>
    /\ order = <<>>
    /\ results = <<>>
    /\ response = NoResponse
    /\ first = NoRun

\* the handler ran to "await asyncio.gather(*tasks, ...)" with these tasks
Suspend(ts) ==
    /\ tasks' = ts
    /\ outcome' = [i \in 1..Len(ts) |-> Pending]
    /\ order' = <<>>
    /\ results' = <<>>
    /\ response' = NoResponse
    /\ first' = NoRun
    /\ pc' = "gather"

\* the handler raised before launching anything
Reject(exc) ==
    /\ tasks' = <<>>
    /\ outcome' = <<>>
    /\ order' = <<>>
    /\ results' = <<>>
    /\ response' = exc
    /\ first' = NoRun
    /\ pc' = "done"

\* a task list that always holds an operation for each scraper, as the one of
\* search_anime does
BuildTasksForAll(aw, as, method) ==
    <<Task(AnimeWorld, method, aw), Task(AnimeSaturn, method, as)>>

\* tasks list built by get_episodes / get_seasons / get_stream_urls
BuildTasks(aw, as, method) ==
    (IF Truthy(aw) THEN <<Task(AnimeWorld, method, aw)>> ELSE <<>>)
        \o (IF Truthy(as) THEN <<Task(AnimeSaturn, method, as)>> ELSE <<>>)

\* GET /search up to the await
SearchRequest ==
    /\ pc = "idle"
    /\ \E query \in Queries :
        /\ op' = "search"
        /\ q' = query
        /\ AW' = None
        /\ AS' = None
        /\ IF query = <<>> \/ Len(Strip(query)) < 2
           THEN Reject(HTTPException("400", "Query must be at least 2 characters long"))
           ELSE Suspend(<<Task(AnimeWorld, "search", query), Task(AnimeSaturn, "search", query)>>)

\* the common entry of /episodes, /stream and /seasons up to the await
IdRequest(endpoint, method, detail) ==
    /\ pc = "idle"
    /\ \E aw \in AWParams, as \in ASParams :
        /\ op' = endpoint
        /\ q' = <<>>
        /\ AW' = aw
        /\ AS' = as
        /\ IF ~Truthy(aw) /\ ~Truthy(as)
           THEN Reject(HTTPException("400", detail))
           ELSE Suspend(BuildTasks(aw, as, method))

EpisodesRequest ==
    IdRequest("episodes", "get_episodes", "At least one source ID (AW or AS) must be provided")

StreamRequest ==
    IdRequest("stream", "get_stream_url", "At least one episode ID (AW or AS) must be provided")

SeasonsRequest ==
    IdRequest("seasons", "get_episodes", "At least one source ID (AW or AS) must be provided")

\* one launched provider operation completes, by returning or by raising
ProviderSettles ==
    /\ pc = "gather"
    /\ \E i \in 1..Len(tasks) :
        /\ outcome[i].kind = "pending"
        /\ \E v \in OutcomesOf(tasks[i]) :
            outcome' = [outcome EXCEPT ![i] = v]
        /\ order' = Append(order, i)
    /\ UNCHANGED <<pc, op, q, AW, AS, tasks, results, response, first>>

\* asyncio.gather: once every operation has settled, the outcomes in the
\* order the awaitables were passed
\* a gather without return_exceptions, which is over at the first failure
SettledOrFailed ==
    \/ \A i \in 1..Len(tasks) : outcome[i].kind # "pending"
    \/ \E i \in 1..Len(tasks) : outcome[i].kind = "exc"
AllSettled == \A i \in 1..Len(tasks) : outcome[i].kind # "pending"
\* a collection of the outcomes in the order the operations completed
GatherAsCompleted(out, ord) == [k \in 1..Len(ord) |-> out[ord[k]]]
Gather(out, ord) == [i \in 1..Len(out) |-> out[i]]

(* ------------------------- episode records --------------------------- *)
\* d[k] = v on a dict d
DictSet(d, k, v) == [x \in DOMAIN d \cup {k} |-> IF x = k THEN v ELSE d[x]]

\* the sub-record written for the source an item came from
AvailableFrom(ep) ==
    [available |-> TRUE, url |-> PyOr(Get(ep, "url"), Get(ep, "stream_url")), id |-> ep.id]

\* the placeholder of a source that has no such episode
Unavailable == [available |-> FALSE, url |-> None, id |-> None]

\* an exception raised inside the handler's try block
Raised == [err |-> TRUE, val |-> <<>>]
Value(v) == [err |-> FALSE, val |-> v]

HasNumber(eps, n) == \E k \in 1..Len(eps) : eps[k].episode_number = n

\* a loop body that leaves a slot alone once the source has written it
AddEpisodeFirstWins(all_episodes, ep, source) ==
    IF {"episode_number", "id"} \ DOMAIN ep # {} THEN Raised
    ELSE LET ep_num == ep.episode_number
             inserted ==
                 IF HasNumber(all_episodes, ep_num) THEN all_episodes
                 ELSE Append(all_episodes, [episode_number |-> ep_num, sources |-> EmptyDict])
         IN Value([k \in 1..Len(inserted) |->
                IF inserted[k].episode_number = ep_num /\ source \notin DOMAIN inserted[k].sources
                THEN [inserted[k] EXCEPT !.sources = DictSet(@, source, AvailableFrom(ep))]
                ELSE inserted[k]])

\* a loop body that stores a fresh record on every item, without the
\* "if ep_num not in all_episodes" test
AddEpisodeOverwriting(all_episodes, ep, source) ==
    IF {"episode_number", "id"} \ DOMAIN ep # {} THEN Raised
    ELSE LET fresh == [episode_number |-> ep.episode_number,
                       sources |-> DictSet(EmptyDict, source, AvailableFrom(ep))]
         IN Value(IF HasNumber(all_episodes, ep.episode_number)
                  THEN [k \in 1..Len(all_episodes) |->
                           IF all_episodes[k].episode_number = ep.episode_number
                           THEN fresh ELSE all_episodes[k]]
                  ELSE Append(all_episodes, fresh))

\* body of the loops "for ep in results[...]" of get_episodes: all_episodes
\* is the dict in insertion order, one record per key
AddEpisode(all_episodes, ep, source) ==
    IF "episode_number" \notin DOMAIN ep THEN Raised
    ELSE LET ep_num == ep.episode_number
             inserted ==
                 IF HasNumber(all_episodes, ep_num) THEN all_episodes
                 ELSE Append(all_episodes, [episode_number |-> ep_num, sources |-> EmptyDict])
         IN IF "id" \notin DOMAIN ep THEN Raised
            ELSE Value([k \in 1..Len(inserted) |->
                    IF inserted[k].episode_number = ep_num
                    THEN [inserted[k] EXCEPT !.sources = DictSet(@, source, AvailableFrom(ep))]
                    ELSE inserted[k]])

RECURSIVE ScanItems(_, _, _)
ScanItems(acc, items, source) ==
    IF acc.err \/ items = <<>> THEN acc
    ELSE ScanItems(AddEpisode(acc.val, Head(items), source), Tail(items), source)

\* a loop over "r or []", which takes None for an empty list
ScanEpisodesNoneAsEmpty(acc, r, source) ==
    IF acc.err THEN acc
    ELSE IF r.kind # "list" THEN acc
    ELSE ScanItems(acc, r.val, source)

\* "for ep in r": iterating None raises TypeError
ScanEpisodes(acc, r, source) ==
    IF acc.err THEN acc
    ELSE IF r.kind # "list" THEN Raised
    ELSE ScanItems(acc, r.val, source)

\* the loop "Fill in missing sources as unavailable"
RECURSIVE FillFrom(_, _)
FillFrom(sources, i) ==
    IF i > Len(Sources) THEN sources
    ELSE FillFrom(IF Sources[i] \notin DOMAIN sources
                  THEN DictSet(sources, Sources[i], Unavailable)
                  ELSE sources, i + 1)

\* a handler without the fill loop
FillNothing(all_episodes) == all_episodes

FillMissing(all_episodes) ==
    [k \in 1..Len(all_episodes) |->
        [all_episodes[k] EXCEPT !.sources = FillFrom(@, 1)]]

\* sorted(..., key=episode_number): a stable insertion sort
RECURSIVE InsertSorted(_, _)
InsertSorted(sorted, e) ==
    IF sorted = <<>> THEN <<e>>
    ELSE IF sorted[Len(sorted)].episode_number <= e.episode_number THEN Append(sorted, e)
    ELSE Append(InsertSorted(SubSeq(sorted, 1, Len(sorted) - 1), e), sorted[Len(sorted)])

\* a handler that returns the dict values unsorted
Unsorted(eps) == eps

RECURSIVE SortByNumber(_)
SortByNumber(eps) ==
    IF eps = <<>> THEN <<>>
    ELSE InsertSorted(SortByNumber(SubSeq(eps, 1, Len(eps) - 1)), eps[Len(eps)])

\* an AnimeWorld test without the leading "AW and"
AWPresentUnguarded(aw, res) == Len(res) > 0 /\ ~IsException(res[1])

\* which positions of results the handlers read for each source
AWPresent(aw, res) == Truthy(aw) /\ Len(res) > 0 /\ ~IsException(res[1])
ASIndex(aw) == IF Truthy(aw) THEN 2 ELSE 1
\* an AnimeSaturn test that reads the failure flag of the first slot
ASPresentFirstSlot(aw, as, res) ==
    Truthy(as) /\ Len(res) > (IF Truthy(aw) THEN 1 ELSE 0) /\ ~IsException(res[1])

ASPresent(aw, as, res) ==
    Truthy(as) /\ Len(res) > (IF Truthy(aw) THEN 1 ELSE 0) /\ ~IsException(res[Len(res)])

\* get_episodes after the await: the try block and its except clause
EpisodesResponse(aw, as, res) ==
    LET fromAW == IF AWPresent(aw, res)
                  THEN ScanEpisodes(Value(<<>>), res[1], AnimeWorld)
                  ELSE Value(<<>>)
        fromAS == IF ASPresent(aw, as, res)
                  THEN ScanEpisodes(fromAW, res[ASIndex(aw)], AnimeSaturn)
                  ELSE fromAW
    IN IF fromAS.err
       THEN HTTPException("500", "Failed to get episodes")
       ELSE Ok(SortByNumber(FillMissing(fromAS.val)))

EpisodesResume ==
    /\ pc = "gather"
    /\ op = "episodes"
    /\ AllSettled
    /\ results' = Gather(outcome, order)
    /\ response' = EpisodesResponse(AW, AS, results')
    /\ pc' = "done"
    /\ UNCHANGED <<op, q, AW, AS, tasks, outcome, order, first>>

(* ------------------------------ seasons ------------------------------ *)
\* an episode literal with the two sub-records under each other's key
SeasonEpisodeSwapped(ep, source) ==
    [episode_number |-> ep.episode_number,
     sources |-> [s \in SourceSet |-> IF s = source THEN Unavailable ELSE AvailableFrom(ep)]]

\* the episode dict literal of get_seasons for an item of source
SeasonEpisode(ep, source) ==
    [episode_number |-> ep.episode_number,
     sources |-> [s \in SourceSet |-> IF s = source THEN AvailableFrom(ep) ELSE Unavailable]]

\* "for ep in ...: ... append(episode)" of get_seasons
SeasonItems(r, source) ==
    IF r.kind # "list" THEN Raised
    ELSE IF \E k \in 1..Len(r.val) : {"episode_number", "id"} \ DOMAIN r.val[k] # {}
    THEN Raised
    ELSE Value([k \in 1..Len(r.val) |-> SeasonEpisode(r.val[k], source)])

\* season_result: a list for AnimeWorld, a dict of season label to list
\* for AnimeSaturn
PyList(s) == [type |-> "list", items |-> s]
PyDict(d) == [type |-> "dict", entries |-> d]

SeasonsResponse(aw, as, res) ==
    LET awEps == IF AWPresent(aw, res) THEN SeasonItems(res[1], AnimeWorld) ELSE Value(<<>>)
        asEps == IF ASPresent(aw, as, res)
                 THEN SeasonItems(res[ASIndex(aw)], AnimeSaturn)
                 ELSE Value(<<>>)
    IN IF awEps.err \/ asEps.err
       THEN HTTPException("500", "Failed to get seasons")
       ELSE Ok([AnimeWorld |-> PyList(awEps.val),
                AnimeSaturn |-> PyDict(IF ASPresent(aw, as, res)
                                       THEN [l \in {"S1"} |-> asEps.val]
                                       ELSE EmptyDict)])

SeasonsResume ==
    /\ pc = "gather"
    /\ op = "seasons"
    /\ AllSettled
    /\ results' = Gather(outcome, order)
    /\ response' = SeasonsResponse(AW, AS, results')
    /\ pc' = "done"
    /\ UNCHANGED <<op, q, AW, AS, tasks, outcome, order, first>>

(* ------------------------------- stream ------------------------------ *)
\* bool(r) of a provider value
TruthyValue(r) ==
    IF r.kind = "str" THEN r.val # ""
    ELSE IF r.kind = "dict" THEN DOMAIN r.val # {}
    ELSE FALSE

\* url = r if isinstance(r, str) else r.get("stream_url")
UrlOf(r) == IF r.kind = "str" THEN r.val ELSE Get(r.val, "stream_url")

\* the iframe markup built for AnimeWorld
IframeEmbed(url) == "<iframe src=\"" \o url \o "\"></iframe>"
\* the proxied video markup built for AnimeSaturn
ProxyUrl(url) == "https://animesaturn-proxy.onrender.com/proxy?url=" \o url
VideoEmbed(url) == "<video src=\"" \o ProxyUrl(url) \o "\"></video>"

StreamUnavailable == [available |-> FALSE, stream_url |-> None, embed |-> None]

AWStream(aw, res) ==
    IF AWPresent(aw, res) /\ TruthyValue(res[1])
    THEN LET url == UrlOf(res[1])
         IN [available |-> TRUE, stream_url |-> url,
             embed |-> IF Truthy(url) THEN IframeEmbed(url) ELSE None]
    ELSE StreamUnavailable

\* an AnimeSaturn record that only passes the provider's embed on
ASStreamNoSynthesis(aw, as, res) ==
    IF ASPresent(aw, as, res) /\ TruthyValue(res[ASIndex(aw)])
    THEN LET data == res[ASIndex(aw)]
         IN [available |-> TRUE, stream_url |-> UrlOf(data),
             embed |-> IF data.kind = "dict" THEN Get(data.val, "embed") ELSE None]
    ELSE StreamUnavailable

ASStream(aw, as, res) ==
    IF ASPresent(aw, as, res) /\ TruthyValue(res[ASIndex(aw)])
    THEN LET data == res[ASIndex(aw)]
             url == UrlOf(data)
             embed_html == IF data.kind = "dict" THEN Get(data.val, "embed") ELSE None
         IN [available |-> TRUE, stream_url |-> url,
             embed |-> IF ~Truthy(embed_html) /\ Truthy(url) THEN VideoEmbed(url) ELSE embed_html]
    ELSE StreamUnavailable

\* get_stream_urls after the await
StreamResponse(aw, as, res) ==
    Ok([AnimeWorld |-> AWStream(aw, res), AnimeSaturn |-> ASStream(aw, as, res)])

StreamResume ==
    /\ pc = "gather"
    /\ op = "stream"
    /\ AllSettled
    /\ results' = Gather(outcome, order)
    /\ response' = StreamResponse(AW, AS, results')
    /\ pc' = "done"
    /\ UNCHANGED <<op, q, AW, AS, tasks, outcome, order, first>>

(* ------------------------------- search ------------------------------ *)
\* str.lower() on the characters titles are made of
LowerChar(c) == IF c = "N" THEN "n" ELSE IF c = "B" THEN "b" ELSE c
NormalizeTitle(t) == Strip([k \in 1..Len(t) |-> LowerChar(t[k])])
IsSameTitle(a, b) == NormalizeTitle(a) = NormalizeTitle(b)

\* one entry merged into the accumulated unified results
MergeEntry(unified, e) ==
    IF \E k \in 1..Len(unified) : IsSameTitle(unified[k].title, e.title)
    THEN LET m == CHOOSE k \in 1..Len(unified) :
                      /\ IsSameTitle(unified[k].title, e.title)
                      /\ \A j \in 1..(k - 1) : ~IsSameTitle(unified[j].title, e.title)
         IN [unified EXCEPT ![m].perSource = DictSet(@, e.source, e.id)]
    ELSE Append(unified, [title |-> e.title, perSource |-> DictSet(EmptyDict, e.source, e.id)])

RECURSIVE MergeEntries(_, _)
MergeEntries(unified, entries) ==
    IF entries = <<>> THEN unified
    ELSE MergeEntries(MergeEntry(unified, Head(entries)), Tail(entries))

\* utils.detect_duplicates(animeworld_results, animesaturn_results)
detect_duplicates(aw_results, as_results) ==
    MergeEntries(MergeEntries(<<>>, aw_results), as_results)

\* results[i] if not isinstance(results[i], Exception) else []
OrEmpty(r) == IF IsException(r) THEN ListOf(<<>>) ELSE r

\* search_anime after the await: len() of None raises TypeError
SearchResponse(res) ==
    LET animeworld_results == OrEmpty(res[1])
        animesaturn_results == OrEmpty(res[2])
    IN IF animeworld_results.kind # "list" \/ animesaturn_results.kind # "list"
       THEN HTTPException("500", "Search failed")
       ELSE Ok(detect_duplicates(animeworld_results.val, animesaturn_results.val))

SearchResume ==
    /\ pc = "gather"
    /\ op = "search"
    /\ AllSettled
    /\ results' = Gather(outcome, order)
    /\ response' = SearchResponse(results')
    /\ pc' = "done"
    /\ UNCHANGED <<op, q, AW, AS, tasks, outcome, order, first>>

(* --------------------------- specification --------------------------- *)
\* the handler has returned or raised: its locals are discarded and the
\* server is ready for the next request
RequestEnds ==
    /\ pc = "done"
    /\ pc' = "idle"
    /\ op' = "none"
    /\ q' = <<>>
    /\ AW' = None
    /\ AS' = None
    /\ tasks' = <<>>
    /\ outcome' = <<>>
    /\ order' = <<>>
    /\ results' = <<>>
    /\ response' = NoResponse
    /\ first' = NoRun

Next ==
    \/ SearchRequest
    \/ EpisodesRequest
    \/ StreamRequest
    \/ SeasonsRequest
    \/ ProviderSettles
    \/ SearchResume
    \/ EpisodesResume
    \/ StreamResume
    \/ SeasonsResume
    \/ RequestEnds

Spec == Init /\ [][Next]_vars

\* the step of SearchResume, EpisodesResume, StreamResume and SeasonsResume:
\* the event loop resumes a handler whose gather is complete, and the handler
\* runs to its return or raise
GatherReturns == pc = "gather" /\ AllSettled /\ pc' = "done"
FairSpec == Spec /\ WF_pc(GatherReturns)

\* the same request is made again: the handler runs to its await with the
\* same task list, and the outcome of the first run is kept for comparison
Replay ==
    /\ pc = "done"
    /\ ~first.ran
    /\ tasks # <<>>
    /\ first' = [ran |-> TRUE, outcome |-> outcome, response |-> response]
    /\ outcome' = [i \in 1..Len(tasks) |-> Pending]
    /\ order' = <<>>
    /\ results' = <<>>
    /\ response' = NoResponse
    /\ pc' = "gather"
    /\ UNCHANGED <<op, q, AW, AS, tasks>>

\* in the second run each provider produces what it produced in the first,
\* in any completion order
ProviderSettlesAgain ==
    /\ pc = "gather"
    /\ first.ran
    /\ \E i \in 1..Len(tasks) :
        /\ outcome[i].kind = "pending"
        /\ outcome' = [outcome EXCEPT ![i] = first.outcome[i]]
        /\ order' = Append(order, i)
    /\ UNCHANGED <<pc, op, q, AW, AS, tasks, results, response, first>>

\* in a first run the providers are free
ProviderSettlesFirst == ~first.ran /\ ProviderSettles

ReplayNext ==
    \/ SearchRequest
    \/ EpisodesRequest
    \/ StreamRequest
    \/ SeasonsRequest
    \/ ProviderSettlesFirst
    \/ ProviderSettlesAgain
    \/ SearchResume
    \/ EpisodesResume
    \/ StreamResume
    \/ SeasonsResume
    \/ Replay
    \/ RequestEnds

ReplaySpec == Init /\ [][ReplayNext]_vars

(* ------------------------ vocabulary of the claims ------------------- *)
Done(endpoint) == pc = "done" /\ op = endpoint
Answered(endpoint) == Done(endpoint) /\ response.status = "200"

Queried(src) == \E i \in 1..Len(tasks) : tasks[i].provider = src
\* what the operation launched on src produced, looked up by provider
OutcomeOf(src) == outcome[CHOOSE i \in 1..Len(tasks) : tasks[i].provider = src]
FailedSource(src) == Queried(src) /\ OutcomeOf(src).kind = "exc"
Other(src) == IF src = AnimeWorld THEN AnimeSaturn ELSE AnimeWorld

Range(s) == {s[k] : k \in 1..Len(s)}

\* every episode record of a /seasons body
SeasonRecords(body) ==
    Range(body.AnimeWorld.items)
        \cup UNION {Range(body.AnimeSaturn.entries[l]) : l \in DOMAIN body.AnimeSaturn.entries}

\* every episode record of the current /episodes or /seasons answer
Records == IF op = "episodes" THEN Range(response.body) ELSE SeasonRecords(response.body)

\* the answer to a request that supplies the identifier of src alone and
\* whose provider produces r
SoloResponse(endpoint, src, r) ==
    LET aw == IF src = AnimeWorld THEN AW ELSE None
        as == IF src = AnimeSaturn THEN AS ELSE None
    IN IF endpoint = "episodes" THEN EpisodesResponse(aw, as, <<r>>)
       ELSE SeasonsResponse(aw, as, <<r>>)

\* both sources queried by /episodes or /seasons, src failed, the other did not
OneFailed(src) ==
    /\ pc = "done"
    /\ op \in {"episodes", "seasons"}
    /\ Len(tasks) = 2
    /\ FailedSource(src)
    /\ ~FailedSource(Other(src))

\* C1: when exactly one of the two queried sources fails, every episode
\* record of the output marks the failed source available=false, url=None,
\* id=None, and the answer is the one the same request gives when the failed
\* source is not queried at all (same records, numbers, ids and urls).
C1_PartialOutage ==
    \A src \in SourceSet :
        OneFailed(src) =>
            /\ response.status = SoloResponse(op, Other(src), OutcomeOf(Other(src))).status
            /\ response.status = "200" =>
                /\ response.body = SoloResponse(op, Other(src), OutcomeOf(Other(src))).body
                /\ \A r \in Records :
                    /\ src \in DOMAIN r.sources
                    /\ r.sources[src] = Unavailable

\* AnimeWorld failed while AnimeSaturn returned two distinct episodes
C1_Witness ==
    /\ OneFailed(AnimeWorld)
    /\ op = "episodes"
    /\ response.status = "200"
    /\ Len(response.body) = 2

\* C2: an /episodes, /stream or /seasons request whose AW and AS are both
\* absent or empty ends in the 400 error, and no provider operation is ever
\* launched for it.
C2_NoIdentifierRejected ==
    (op \in {"episodes", "stream", "seasons"} /\ AW \in {None, ""} /\ AS \in {None, ""}) =>
        /\ pc = "done"
        /\ response.status = "400"
        /\ tasks = <<>>
        /\ outcome = <<>>
        /\ order = <<>>

\* a /stream request with an empty AW and no AS was rejected
C2_Witness ==
    /\ Done("stream")
    /\ AW = ""
    /\ AS = None
    /\ response.status = "400"

\* length of a string without its leading and trailing whitespace, counted
\* from the positions of its first and last non-blank characters
TrimmedLength(s) ==
    LET solid == {k \in 1..Len(s) : s[k] # " "}
    IN IF solid = {} THEN 0
       ELSE (CHOOSE k \in solid : \A j \in solid : j <= k)
                - (CHOOSE k \in solid : \A j \in solid : j >= k) + 1

\* C3: a search whose trimmed query is shorter than 2 characters ends in the
\* 400 error with no provider contacted; any other search queries both
\* providers.
C3_ShortQueryRejected ==
    op = "search" =>
        IF TrimmedLength(q) < 2
        THEN pc = "done" /\ response.status = "400" /\ tasks = <<>> /\ outcome = <<>>
        ELSE /\ Len(tasks) = 2
             /\ {tasks[i].provider : i \in 1..Len(tasks)} = SourceSet
             /\ \A i \in 1..Len(tasks) : tasks[i].method = "search" /\ tasks[i].arg = q

\* the one-character query "a" padded with a blank on each side was rejected
C3_Witness ==
    /\ Done("search")
    /\ q = <<" ", "a", " ">>
    /\ response.status = "400"

\* the request did not pass the validation at the head of its handler
InvalidInput ==
    IF op = "search" THEN TrimmedLength(q) < 2
    ELSE AW \in {None, ""} /\ AS \in {None, ""}

AllFailed == Len(tasks) > 0 /\ \A i \in 1..Len(tasks) : outcome[i].kind = "exc"

\* the empty / default body of each endpoint; for /search, whatever the merge
\* of two empty sequences gives
EmptyBody ==
    IF op = "search" THEN detect_duplicates(<<>>, <<>>)
    ELSE IF op = "episodes" THEN <<>>
    ELSE IF op = "seasons"
    THEN [AnimeWorld |-> PyList(<<>>), AnimeSaturn |-> PyDict(EmptyDict)]
    ELSE [AnimeWorld |-> StreamUnavailable, AnimeSaturn |-> StreamUnavailable]

\* C4: when every queried provider fails the request is answered (no error)
\* with the endpoint's empty / default body, and a request ends in the 400
\* error exactly when its input fails the validation.
C4_TotalFailureAnswered ==
    pc = "done" =>
        /\ AllFailed => (response.status = "200" /\ response.body = EmptyBody)
        /\ response.status = "400" <=> InvalidInput

\* both providers of a /seasons request failed and the request was answered
C4_Witness ==
    /\ Done("seasons")
    /\ Len(tasks) = 2
    /\ AllFailed
    /\ response.status = "200"

\* C5: in every record of an /episodes or /seasons answer, a sub-record with
\* available=false has url and id None, and a sub-record with available=true
\* has an id that is not None.
C5_AvailabilityInvariant ==
    (Answered("episodes") \/ Answered("seasons")) =>
        \A r \in Records : \A src \in DOMAIN r.sources :
            /\ ~r.sources[src].available =>
                   (r.sources[src].url = None /\ r.sources[src].id = None)
            /\ r.sources[src].available => r.sources[src].id # None

\* the items a queried source returned (none when it failed or was not asked)
ItemsOf(src) ==
    IF Queried(src) /\ OutcomeOf(src).kind = "list" THEN OutcomeOf(src).val ELSE <<>>
Succeeded(src) == Queried(src) /\ OutcomeOf(src).kind = "list"

\* the record a /seasons answer holds for item k of src
IsRecordOf(rec, item, src) ==
    /\ rec.episode_number = item.episode_number
    /\ DOMAIN rec.sources = SourceSet
    /\ rec.sources[src].available
    /\ rec.sources[src].id = item.id
    /\ rec.sources[Other(src)] = Unavailable

HoldsItemsOf(list, src) ==
    /\ Len(list) = Len(ItemsOf(src))
    /\ \A k \in 1..Len(list) : IsRecordOf(list[k], ItemsOf(src)[k], src)

C7_PositionalResults ==
    (pc = "done" /\ op \in {"episodes", "stream", "seasons"} /\ response.status # "400") =>
        /\ Len(results) = Len(tasks)
        /\ \A i \in 1..Len(tasks) : results[i] = outcome[i]
        /\ (response.status = "200" /\ op # "stream") =>
               \A r \in Records : \A src \in DOMAIN r.sources :
                   r.sources[src].available =>
                       \E k \in 1..Len(ItemsOf(src)) :
                           /\ ItemsOf(src)[k].episode_number = r.episode_number
                           /\ ItemsOf(src)[k].id = r.sources[src].id
        /\ (response.status = "200" /\ op = "stream") =>
               \A src \in SourceSet :
                   response.body[src].available =>
                       /\ Queried(src)
                       /\ TruthyValue(OutcomeOf(src))
                       /\ response.body[src].stream_url = UrlOf(OutcomeOf(src))

\* AnimeSaturn completed before AnimeWorld and both returned episodes
C7_Witness ==
    /\ Answered("episodes")
    /\ order = <<2, 1>>
    /\ Len(ItemsOf(AnimeWorld)) > 0
    /\ Len(ItemsOf(AnimeSaturn)) > 0
    /\ Len(response.body) > 0

\* the episode numbers a queried, successful source reported
Reported(src) == {ItemsOf(src)[k].episode_number : k \in 1..Len(ItemsOf(src))}

\* C8: an /episodes answer has exactly one record for each episode number
\* reported by a queried, successful source and no other record; a source's
\* slot is available=true with one of that source's own ids for that number
\* if and only if the source reported the number, and the unavailable
\* placeholder otherwise.
C8_OneRecordPerNumber ==
    Answered("episodes") =>
        /\ {response.body[k].episode_number : k \in 1..Len(response.body)}
               = Reported(AnimeWorld) \cup Reported(AnimeSaturn)
        /\ Len(response.body) = Cardinality(Reported(AnimeWorld) \cup Reported(AnimeSaturn))
        /\ \A r \in Records : \A src \in SourceSet :
               /\ src \in DOMAIN r.sources
               /\ IF r.episode_number \in Reported(src)
                  THEN /\ r.sources[src].available
                       /\ \E k \in 1..Len(ItemsOf(src)) :
                              /\ ItemsOf(src)[k].episode_number = r.episode_number
                              /\ ItemsOf(src)[k].id = r.sources[src].id
                  ELSE r.sources[src] = Unavailable

\* the example of the claim: A = [1:a1, 2:a2], B = [1:b1]
C8_Witness ==
    /\ Answered("episodes")
    /\ ItemsOf(AnimeWorld) = <<EpisodeItem(AnimeWorld, 1, "a1"), EpisodeItem(AnimeWorld, 2, "a2")>>
    /\ ItemsOf(AnimeSaturn) = <<EpisodeItem(AnimeSaturn, 1, "b1")>>
    /\ Len(response.body) = 2
    /\ response.body[1].episode_number = 1
    /\ response.body[1].sources[AnimeWorld].id = "a1"
    /\ response.body[1].sources[AnimeSaturn].id = "b1"
    /\ response.body[2].episode_number = 2
    /\ response.body[2].sources[AnimeWorld].id = "a2"
    /\ response.body[2].sources[AnimeSaturn] = Unavailable

\* C9: an /episodes answer is sorted ascending by episode number and no two
\* of its records have the same episode number, whatever the providers sent.
C9_SortedNoDuplicates ==
    Answered("episodes") =>
        \A i, j \in 1..Len(response.body) :
            i < j => response.body[i].episode_number < response.body[j].episode_number

\* AnimeWorld sent episode 2 before episode 1 and AnimeSaturn repeated episode 2
C9_Witness ==
    /\ Answered("episodes")
    /\ Len(ItemsOf(AnimeWorld)) = 2
    /\ ItemsOf(AnimeWorld)[1].episode_number = 2
    /\ ItemsOf(AnimeWorld)[2].episode_number = 1
    /\ Len(ItemsOf(AnimeSaturn)) = 2
    /\ ItemsOf(AnimeSaturn)[1].episode_number = 2
    /\ ItemsOf(AnimeSaturn)[2].episode_number = 2
    /\ Len(response.body) = 2

\* C10: every record of an /episodes or /seasons answer has a sources mapping
\* whose keys are exactly AnimeWorld and AnimeSaturn, also for a source that
\* was not queried or that failed.
C10_AllSourcesKeyed ==
    (Answered("episodes") \/ Answered("seasons")) =>
        \A r \in Records : DOMAIN r.sources = SourceSet

\* only AnimeSaturn was queried and /episodes answered with records
C10_Witness ==
    /\ Answered("episodes")
    /\ ~Queried(AnimeWorld)
    /\ Len(response.body) > 0

\* the identifier the request supplies for src, and whether it is usable
IdFor(src) == IF src = AnimeWorld THEN AW ELSE AS
Supplied(src) == IdFor(src) \notin {None, ""}

\* the adapter of src returned a non-empty string or a non-empty descriptor
ReturnedNonEmpty(src) ==
    /\ Queried(src)
    /\ \/ OutcomeOf(src).kind = "str" /\ OutcomeOf(src).val # ""
       \/ OutcomeOf(src).kind = "dict" /\ DOMAIN OutcomeOf(src).val # {}

\* the /stream record of src when src alone is supplied and produces r
SoloStream(src, r) ==
    IF src = AnimeWorld THEN StreamResponse(AW, None, <<r>>).body[AnimeWorld]
    ELSE StreamResponse(None, AS, <<r>>).body[AnimeSaturn]

\* C11: a /stream request that supplies at least one identifier is answered
\* whatever adapters fail; a source is available exactly when its identifier
\* was supplied and its adapter returned a non-empty value, any other source
\* has the default unavailable record, and a source's record is the one it
\* has when it is the only source supplied.
C11_StreamIndependent ==
    (Done("stream") /\ (Supplied(AnimeWorld) \/ Supplied(AnimeSaturn))) =>
        /\ response.status = "200"
        /\ \A src \in SourceSet :
            /\ response.body[src].available <=> (Supplied(src) /\ ReturnedNonEmpty(src))
            /\ ~(Supplied(src) /\ ReturnedNonEmpty(src)) =>
                   response.body[src] = StreamUnavailable
            /\ Queried(src) => response.body[src] = SoloStream(src, OutcomeOf(src))

\* the example of the claim: only AnimeSaturn supplied, and its adapter failed
C11_Witness ==
    /\ Done("stream")
    /\ ~Supplied(AnimeWorld)
    /\ FailedSource(AnimeSaturn)
    /\ response.status = "200"
    /\ response.body[AnimeWorld] = StreamUnavailable
    /\ response.body[AnimeSaturn] = StreamUnavailable

\* no two records of the list have the same episode number
DistinctNumbers(list) ==
    \A i, j \in 1..Len(list) : i # j => list[i].episode_number # list[j].episode_number

\* C12: in every result set of an answer (the /episodes list, the AnimeWorld
\* list of /seasons and each AnimeSaturn season list) no two records have the
\* same episode number, also when a provider repeats a number.
C12_UniqueNumbers ==
    /\ Answered("episodes") => DistinctNumbers(response.body)
    /\ Answered("seasons") =>
        /\ DistinctNumbers(response.body.AnimeWorld.items)
        /\ \A l \in DOMAIN response.body.AnimeSaturn.entries :
               DistinctNumbers(response.body.AnimeSaturn.entries[l])

\* the operations launched on src
LaunchedOn(src) == {i \in 1..Len(tasks) : tasks[i].provider = src}

\* C13: in an /episodes, /stream or /seasons request, one operation is
\* launched on a provider whose identifier was supplied (non-empty), with that
\* identifier, and none on a provider whose identifier was not.
C13_QueriedOnlyIfSupplied ==
    (op \in {"episodes", "stream", "seasons"}) =>
        \A src \in SourceSet :
            /\ Cardinality(LaunchedOn(src)) = (IF Supplied(src) THEN 1 ELSE 0)
            /\ \A i \in LaunchedOn(src) :
                /\ tasks[i].arg = IdFor(src)
                /\ tasks[i].method = (IF op = "stream" THEN "get_stream_url" ELSE "get_episodes")

\* a /seasons request with an empty AW is waiting for AnimeSaturn alone
C13_Witness ==
    /\ pc = "gather"
    /\ op = "seasons"
    /\ AW = ""
    /\ Supplied(AnimeSaturn)
    /\ Len(tasks) = 1
    /\ tasks[1].provider = AnimeSaturn

\* the url of a provider item: its "url", or else its "stream_url"
ItemUrl(item) ==
    IF "url" \in DOMAIN item /\ item.url \notin {None, ""} THEN item.url
    ELSE IF "stream_url" \in DOMAIN item THEN item.stream_url
    ELSE None

\* the position of the last item of src with episode number n
LastWith(src, n) ==
    CHOOSE k \in 1..Len(ItemsOf(src)) :
        /\ ItemsOf(src)[k].episode_number = n
        /\ \A j \in (k + 1)..Len(ItemsOf(src)) : ItemsOf(src)[j].episode_number # n

\* C16: in an /episodes answer, the slot of a source in the record of an
\* episode number carries the id and url of the last item of that source's
\* sequence with that number, whatever the other source sent for it.
C16_LastWriteWins ==
    Answered("episodes") =>
        \A r \in Records : \A src \in SourceSet :
            r.episode_number \in Reported(src) =>
                /\ src \in DOMAIN r.sources
                /\ r.sources[src].available
                /\ r.sources[src].id = ItemsOf(src)[LastWith(src, r.episode_number)].id
                /\ r.sources[src].url = ItemUrl(ItemsOf(src)[LastWith(src, r.episode_number)])

\* AnimeWorld sent episode 1 twice with different ids, AnimeSaturn sent it once
C16_Witness ==
    /\ Answered("episodes")
    /\ ItemsOf(AnimeWorld) = <<EpisodeItem(AnimeWorld, 1, "a1"), EpisodeItem(AnimeWorld, 1, "a2")>>
    /\ ItemsOf(AnimeSaturn) = <<EpisodeItem(AnimeSaturn, 1, "b1")>>
    /\ Len(response.body) = 1
    /\ response.body[1].sources[AnimeWorld].id = "a2"
    /\ response.body[1].sources[AnimeWorld].url = "stream-a2"
    /\ response.body[1].sources[AnimeSaturn].id = "b1"

\* the value a provider returned (without raising) cannot be normalised: it
\* is no sequence, or one of its items lacks the episode number or the id
Unusable(r) ==
    \/ r.kind = "none"
    \/ /\ r.kind = "list"
       /\ op \in {"episodes", "seasons"}
       /\ \E k \in 1..Len(r.val) : {"episode_number", "id"} \ DOMAIN r.val[k] # {}

InternalError == \E i \in 1..Len(tasks) : Unusable(outcome[i])

\* C17: a /search, /episodes or /seasons request in which a provider returned
\* a value that cannot be normalised ends in the 500 error without a body; a
\* 500 error is never given to a request that fails the validation, which
\* ends in the 400 error.
C17_InternalErrorIsServerError ==
    (pc = "done" /\ op \in {"search", "episodes", "seasons"}) =>
        /\ InternalError => (response.status = "500" /\ "body" \notin DOMAIN response)
        /\ InvalidInput => response.status = "400"
        /\ response.status = "500" => (~InvalidInput /\ InternalError)

\* AnimeWorld returned episodes, AnimeSaturn an item without episode number
C17_Witness ==
    /\ Done("episodes")
    /\ Len(ItemsOf(AnimeWorld)) > 0
    /\ ~Unusable(OutcomeOf(AnimeWorld))
    /\ Len(ItemsOf(AnimeSaturn)) = 2
    /\ "episode_number" \notin DOMAIN ItemsOf(AnimeSaturn)[2]
    /\ response.status = "500"

\* the embed markup the provider of src sent with its descriptor, if any
ProviderEmbed(src) ==
    IF OutcomeOf(src).kind = "dict" /\ "embed" \in DOMAIN OutcomeOf(src).val
    THEN OutcomeOf(src).val.embed
    ELSE None

\* the markup synthesized for a url of src
Synthesized(src, url) == IF src = AnimeWorld THEN IframeEmbed(url) ELSE VideoEmbed(url)

\* C18: in a /stream answer, a record with available=false has stream_url and
\* embed None; a record with available=true and a non-empty stream_url has an
\* embed that is not None: AnimeSaturn's own embed when the provider sent a
\* non-empty one, and otherwise the markup synthesized from the url and the
\* source, which differs between the sources.
C18_StreamEmbed ==
    Answered("stream") =>
        \A src \in SourceSet :
            LET rec == response.body[src]
            IN /\ ~rec.available => (rec.stream_url = None /\ rec.embed = None)
               /\ (rec.available /\ rec.stream_url \notin {None, ""}) =>
                    /\ rec.embed # None
                    /\ rec.embed =
                         IF src = AnimeSaturn /\ ProviderEmbed(src) \notin {None, ""}
                         THEN ProviderEmbed(src)
                         ELSE Synthesized(src, rec.stream_url)
                    /\ rec.embed # Synthesized(Other(src), rec.stream_url)

\* AnimeSaturn returned a bare url and the answer carries the proxied video
C18_Witness ==
    /\ Answered("stream")
    /\ Queried(AnimeSaturn)
    /\ OutcomeOf(AnimeSaturn) = StrOf(StreamUrlOf(AnimeSaturn))
    /\ response.body[AnimeSaturn].available
    /\ response.body[AnimeSaturn].embed = VideoEmbed(StreamUrlOf(AnimeSaturn))

\* the launched operations that have neither returned nor raised yet
InFlight == {i \in 1..Len(tasks) : outcome[i] = Pending}

\* C15: the operations of a request are launched together (the task list
\* never changes while the handler waits or answers); while one of them is in
\* flight, also after another has failed, the handler is still suspended, has
\* gathered nothing and has not responded; the handler leaves its await only
\* with nothing in flight and by responding, and it never stays suspended for
\* ever once nothing is in flight: a request whose operations all settle
\* eventually responds.
C15_GatherBarrier ==
    /\ [](InFlight # {} => (pc = "gather" /\ results = <<>> /\ response = NoResponse))
    /\ [][pc = "gather" => (tasks' = tasks /\ Len(outcome') = Len(tasks))]_vars
    /\ [][(pc = "gather" /\ pc' # "gather") =>
              (InFlight = {} /\ pc' = "done" /\ response' # NoResponse)]_vars
    /\ []<>(~(pc = "gather" /\ InFlight = {}))

\* AnimeWorld has already failed while AnimeSaturn is still in flight
C15_Witness ==
    /\ pc = "gather"
    /\ op = "episodes"
    /\ Len(tasks) = 2
    /\ outcome[1] = Failure
    /\ InFlight = {2}
    /\ response = NoResponse

\* C14: a request run a second time on the same provider outputs (values and
\* failures), in whatever order the operations complete in either run, ends
\* with the same outcome as the first run: the same status and the same body,
\* record order and per-source slots included.
C14_SameOutputOnRerun ==
    (pc = "done" /\ first.ran) =>
        /\ \A i \in 1..Len(tasks) : outcome[i] = first.outcome[i]
        /\ response.status = first.response.status
        /\ response.status = "200" => response.body = first.response.body

\* the second run of an /episodes request in which AnimeSaturn completed
\* first, both sources having returned episodes out of order
C14_Witness ==
    /\ Answered("episodes")
    /\ first.ran
    /\ order = <<2, 1>>
    /\ Len(ItemsOf(AnimeWorld)) = 2
    /\ Len(ItemsOf(AnimeSaturn)) = 2
    /\ ItemsOf(AnimeWorld)[1].episode_number = 2
    /\ ItemsOf(AnimeSaturn)[2].episode_number = 1
    /\ Len(response.body) = 2
    /\ response.body = first.response.body

====
